---- MODULE Spec2Model ----
(***************************************************************************)
(* Model of Microsoft::React::Test::TestRunner::GetInstance                *)
(* (vnext/Desktop.IntegrationTests/DesktopTestRunner.cpp).                 *)
(*                                                                         *)
(* GetInstance is modelled statement by statement (pc names the next       *)
(* statement).  Smart pointers are modelled by the identity of the object  *)
(* they point to ("null" for an empty pointer), so that copies, moves and  *)
(* lambda captures of a queue or of the settings stay visible.             *)
(*                                                                         *)
(* The message queues, CreateReactInstance, loadBundle and the release of  *)
(* the returned handle are defined outside DesktopTestRunner.cpp; their    *)
(* behaviour is modelled from the design document and is marked as such.   *)
(***************************************************************************)
EXTENDS Naturals, Sequences, FiniteSets

\* ------------------------------------------------------------- bounds
\* Longest caller-supplied list of extra modules.
MaxExtras == 2
\* Most calls script code issues into native modules in one run.
MaxCalls == 2
\* Most timer callbacks the Timing module posts through its captured queue.
MaxTimers == 1

\* ------------------------------------------------------------- values
Null == "null"

\* The two objects react::uwp::MakeJSQueueThread() creates, in creation order.
QueueIds == <<"q1", "q2">>

\* Names a caller may give to an extra module; "Timing" collides with a built-in.
ExtraNames == {"Custom", "Timing"}

\* Bundle identifiers a caller may pass.
BundleFiles == {"main.bundle"}

\* Caller-supplied DevSettings values (fields this function reads or writes,
\* plus one field it never touches).
SettingsInputs ==
    { [jsiRuntimeHolder |-> Null, platformName |-> "", useWebDebugger |-> FALSE],
      [jsiRuntimeHolder |-> "callerHolder", platformName |-> "uwp", useWebDebugger |-> TRUE] }

RECURSIVE SeqsUpTo(_, _)
SeqsUpTo(S, n) ==
    IF n = 0 THEN { <<>> }
    ELSE SeqsUpTo(S, n - 1) \cup
         { Append(s, x) : s \in { t \in SeqsUpTo(S, n - 1) : Len(t) = n - 1 }, x \in S }

VARIABLES
    pc,            \* next statement of GetInstance, or "returned" / "terminated"
    jsBundleFile,  \* parameter: the bundle identifier
    cxxModules,    \* parameter: the caller's list of (name, provider)
    callerKeeps,   \* whether the caller kept its own shared_ptr<DevSettings>
    settings0,     \* the DevSettings object as the caller passed it
    settings,      \* the DevSettings object now
    devSettings,   \* local shared_ptr: "settings" or "null"
    nativeQueue,   \* local shared_ptr: a queue id or "null"
    jsQueue,       \* local shared_ptr: a queue id or "null"
    holder,        \* the ChakraRuntimeHolder object
    extraModules,  \* local vector of (name, provider, queue) descriptors
    idx,           \* position of the range-for over cxxModules
    instance,      \* the object CreateReactInstance returned
    result,        \* the value GetInstance returned
    done,          \* statements completed so far, in order
    queues,        \* each message queue: state and pending tasks
    loadStatus,    \* outcome of the bundle load
    issued,        \* number of script-to-native calls issued
    executed,      \* tasks started, in order: kind, id and the queue that ran it
    timers,        \* number of timer callbacks posted
    released       \* the caller released the returned handle

vars == << pc, jsBundleFile, cxxModules, callerKeeps, settings0, settings,
           devSettings, nativeQueue, jsQueue, holder, extraModules, idx,
           instance, result, done, queues, loadStatus, issued, executed,
           timers, released >>

callVars == << jsBundleFile, cxxModules, callerKeeps, settings0 >>
runVars == << loadStatus, issued, executed, timers, released >>

\* ------------------------------------------------------------- helpers
Range(s) == { s[k] : k \in 1..Len(s) }

\* The seven built-in module names, in the order of the initializer list.
\* TestAppStateModule::name and TestDeviceInfoModule::name are declared in
\* TestModule.h; the model uses "AppState" and "DeviceInfo" for them.
BuiltinNames ==
    << "AsyncLocalStorage", "WebSocketModule", "Networking", "Timing",
       "AppState", "UIManager", "DeviceInfo" >>

\* post(task): a queue that is not running accepts nothing.
Post(qs, q, t) ==
    IF qs[q].state = "running"
    THEN [qs EXCEPT ![q].tasks = Append(@, t)]
    ELSE qs

\* react::uwp::MakeJSQueueThread(): a fresh queue object, distinct from every
\* queue created before.
MakeJSQueueThread ==
    QueueIds[CHOOSE k \in 1..Len(QueueIds) :
                /\ queues[QueueIds[k]].state = "unallocated"
                /\ \A j \in 1..(k - 1) : queues[QueueIds[j]].state # "unallocated"]

\* Variant of BuiltinModules: the Timing descriptor is bound to the script queue.
BuiltinModules_TimingOnJs(nq) ==
    [k \in 1..Len(BuiltinNames) |->
        [name |-> BuiltinNames[k],
         provider |-> [kind |-> "builtin", n |-> k,
                       capture |-> IF BuiltinNames[k] = "Timing" THEN nq ELSE Null],
         queue |-> IF BuiltinNames[k] = "Timing" THEN jsQueue ELSE nq]]

\* The initializer list of lines 46-73: seven descriptors, each holding a copy
\* of nativeQueue; the Timing provider also captures nativeQueue by copy.
BuiltinModules(nq) ==
    [k \in 1..Len(BuiltinNames) |->
        [name |-> BuiltinNames[k],
         provider |-> [kind |-> "builtin", n |-> k,
                       capture |-> IF BuiltinNames[k] = "Timing" THEN nq ELSE Null],
         queue |-> nq]]

\* Variant of ExtraDescriptor: the extra is bound to the script queue.
ExtraDescriptor_OnJsQueue(t, nq) ==
    [name |-> t.name,
     provider |-> [kind |-> "extra", n |-> t.provider, capture |-> Null],
     queue |-> jsQueue]

\* The tuple that line 78 constructs from a caller's (name, provider).
ExtraDescriptor(t, nq) ==
    [name |-> t.name,
     provider |-> [kind |-> "extra", n |-> t.provider, capture |-> Null],
     queue |-> nq]

\* Variant of EmplaceBack: the new element is inserted at the front.
EmplaceBack_Front(v, d) == << d >> \o v

\* Variant of EmplaceBack: override-on-append, an element with the same name is
\* replaced by the new one.
EmplaceBack_Override(v, d) ==
    Append(SelectSeq(v, LAMBDA e : e.name # d.name), d)

\* vector::emplace_back: the new element goes to the end, nothing is replaced.
EmplaceBack(v, d) == Append(v, d)

\* Variant of NextStep: the platform name is written right after the holder,
\* before the table is built.
NextStep_PlatformFirst(p) ==
    CASE p = "allocNative" -> "allocJs"
      [] p = "allocJs"     -> "makeHolder"
      [] p = "makeHolder"  -> "platform"
      [] p = "platform"    -> "builtins"
      [] p = "builtins"    -> "extras"
      [] p = "extras"      -> "create"
      [] p = "create"      -> "load"
      [] p = "load"        -> "wrap"
      [] p = "wrap"        -> "returned"

\* Program order of the statements of GetInstance (lines 41-94): the statement
\* that follows statement p.
NextStep(p) ==
    CASE p = "allocNative" -> "allocJs"
      [] p = "allocJs"     -> "makeHolder"
      [] p = "makeHolder"  -> "builtins"
      [] p = "builtins"    -> "extras"
      [] p = "extras"      -> "platform"
      [] p = "platform"    -> "create"
      [] p = "create"      -> "load"
      [] p = "load"        -> "wrap"
      [] p = "wrap"        -> "returned"

\* ------------------------------------------------------------- Init
Init ==
    /\ pc = "allocNative"
    /\ jsBundleFile \in BundleFiles
    /\ \E names \in SeqsUpTo(ExtraNames, MaxExtras) :
          cxxModules = [k \in 1..Len(names) |-> [name |-> names[k], provider |-> k]]
    /\ callerKeeps \in BOOLEAN
    /\ settings0 \in SettingsInputs
    /\ settings = settings0
    /\ devSettings = "settings"
    /\ nativeQueue = Null
    /\ jsQueue = Null
    /\ holder = [made |-> FALSE, jsQueue |-> Null]
    /\ extraModules = << >>
    /\ idx = 1
    /\ instance = [made |-> FALSE, jsBundleRelativePath |-> "", modules |-> << >>,
                   uimanager |-> Null, callback |-> Null,
                   jsQueue |-> Null, nativeQueue |-> Null, devSettings |-> Null]
    /\ result = Null
    /\ done = << >>
    /\ queues = [q \in Range(QueueIds) |-> [state |-> "unallocated", tasks |-> << >>, current |-> << >>]]
    /\ loadStatus = "none"
    /\ issued = 0
    /\ executed = << >>
    /\ timers = 0
    /\ released = FALSE

\* ------------------------------------------------------------- GetInstance
\* line 41: auto nativeQueue = react::uwp::MakeJSQueueThread();
AllocNativeQueue ==
    /\ pc = "allocNative"
    /\ nativeQueue' = MakeJSQueueThread
    /\ queues' = [queues EXCEPT ![MakeJSQueueThread].state = "running"]
    /\ done' = Append(done, "allocNative")
    /\ pc' = NextStep(pc)
    /\ UNCHANGED << callVars, runVars, settings, devSettings, jsQueue, holder,
                    extraModules, idx, instance, result >>

\* line 42: auto jsQueue = react::uwp::MakeJSQueueThread();
AllocJsQueue ==
    /\ pc = "allocJs"
    /\ jsQueue' = MakeJSQueueThread
    /\ queues' = [queues EXCEPT ![MakeJSQueueThread].state = "running"]
    /\ done' = Append(done, "allocJs")
    /\ pc' = NextStep(pc)
    /\ UNCHANGED << callVars, runVars, settings, devSettings, nativeQueue, holder,
                    extraModules, idx, instance, result >>

\* line 44: devSettings->jsiRuntimeHolder =
\*              std::make_shared<ChakraRuntimeHolder>(devSettings, jsQueue, nullptr, nullptr);
\* The holder receives a copy of jsQueue; the local jsQueue stays set.
MakeRuntimeHolder ==
    /\ pc = "makeHolder"
    /\ holder' = [made |-> TRUE, jsQueue |-> jsQueue]
    /\ settings' = [settings EXCEPT !.jsiRuntimeHolder = "holder"]
    /\ done' = Append(done, "makeHolder")
    /\ pc' = NextStep(pc)
    /\ UNCHANGED << callVars, runVars, devSettings, nativeQueue, jsQueue,
                    extraModules, idx, instance, result, queues >>

\* lines 46-73: vector<...> extraModules{ seven make_tuple(...) };
BuildBuiltins ==
    /\ pc = "builtins"
    /\ extraModules' = BuiltinModules(nativeQueue)
    /\ idx' = 1
    /\ done' = Append(done, "builtins")
    /\ pc' = NextStep(pc)
    /\ UNCHANGED << callVars, runVars, settings, devSettings, nativeQueue, jsQueue,
                    holder, instance, result, queues >>

\* lines 77-79, one iteration:
\*     extraModules.emplace_back(std::get<0>(t), std::get<1>(t), nativeQueue);
AppendExtra ==
    /\ pc = "extras"
    /\ idx <= Len(cxxModules)
    /\ extraModules' = EmplaceBack(extraModules, ExtraDescriptor(cxxModules[idx], nativeQueue))
    /\ idx' = idx + 1
    /\ UNCHANGED << pc, done, callVars, runVars, settings, devSettings, nativeQueue,
                    jsQueue, holder, instance, result, queues >>

\* lines 77-79: the range-for ends when every element of cxxModules was visited.
ExtrasDone ==
    /\ pc = "extras"
    /\ idx > Len(cxxModules)
    /\ done' = Append(done, "extras")
    /\ pc' = NextStep(pc)
    /\ UNCHANGED << callVars, runVars, settings, devSettings, nativeQueue, jsQueue,
                    holder, extraModules, idx, instance, result, queues >>

\* Variant of WithPlatformName: the write also resets another field.
WithPlatformName_Clobber(s) ==
    [s EXCEPT !.platformName = "windesktop", !.useWebDebugger = FALSE]

\* The settings object after the assignment of line 82.
WithPlatformName(s) == [s EXCEPT !.platformName = "windesktop"]

\* line 82: devSettings->platformName = "windesktop";
SetPlatformName ==
    /\ pc = "platform"
    /\ settings' = WithPlatformName(settings)
    /\ done' = Append(done, "platform")
    /\ pc' = NextStep(pc)
    /\ UNCHANGED << callVars, runVars, devSettings, nativeQueue, jsQueue, holder,
                    extraModules, idx, instance, result, queues >>

\* Variant of MovedFrom: the argument is copied, the local keeps its reference.
MovedFrom_Copy(p) == p

\* A shared_ptr after std::move into a by-value parameter: empty.
MovedFrom(p) == Null

\* CreateReactInstance(jsBundleRelativePath, cxxModules, uimanager, callback,
\* jsQueue, nativeQueue, devSettings): the instance keeps what it is given.
CreateReactInstance(path, modules, uimanager, callback, jq, nq, ds) ==
    [made |-> TRUE, jsBundleRelativePath |-> path, modules |-> modules,
     uimanager |-> uimanager, callback |-> callback,
     jsQueue |-> jq, nativeQueue |-> nq, devSettings |-> ds]

\* lines 84-91: auto instanceWrapper = CreateReactInstance("", std::move(extraModules),
\*     nullptr, std::make_unique<TestInstanceCallback>(), std::move(jsQueue),
\*     std::move(nativeQueue), std::move(devSettings));
\* Note the argument order: jsQueue before nativeQueue.
CreateInstance ==
    /\ pc = "create"
    /\ instance' = CreateReactInstance("", extraModules, Null, "TestInstanceCallback",
                                       jsQueue, nativeQueue, devSettings)
    /\ extraModules' = << >>
    /\ jsQueue' = MovedFrom(jsQueue)
    /\ nativeQueue' = MovedFrom(nativeQueue)
    /\ devSettings' = MovedFrom(devSettings)
    /\ done' = Append(done, "create")
    /\ pc' = NextStep(pc)
    /\ UNCHANGED << callVars, runVars, settings, holder, idx, result, queues >>

\* InstanceWrapper::loadBundle: schedules the parse/execute of the bundle on the
\* instance's script queue and returns.
LoadBundle(qs, inst, bundle) ==
    Post(qs, inst.jsQueue, [kind |-> "load", id |-> 0])

\* line 92: instanceWrapper->loadBundle(std::move(jsBundleFile));
IssueLoadBundle ==
    /\ pc = "load"
    /\ queues' = LoadBundle(queues, instance, jsBundleFile)
    /\ loadStatus' = "pending"
    /\ done' = Append(done, "load")
    /\ pc' = NextStep(pc)
    /\ UNCHANGED << callVars, issued, executed, timers, released, settings,
                    devSettings, nativeQueue, jsQueue, holder, extraModules, idx,
                    instance, result >>

\* Variant of WrapInstance: an empty handle when the bundle load has failed.
WrapInstance_LoadChecked(inst) ==
    IF loadStatus = "failed" THEN Null ELSE "DesktopTestInstance"

\* The value line 94 builds: a DesktopTestInstance around the instance wrapper.
WrapInstance(inst) == "DesktopTestInstance"

\* line 94: return shared_ptr<ITestInstance>(new DesktopTestInstance(std::move(instanceWrapper)));
ReturnHandle ==
    /\ pc = "wrap"
    /\ result' = WrapInstance(instance)
    /\ done' = Append(done, "return")
    /\ pc' = NextStep(pc)
    /\ UNCHANGED << callVars, runVars, settings, devSettings, nativeQueue, jsQueue,
                    holder, extraModules, idx, instance, queues >>

\* Statements of the body that allocate or call out, and so may throw.
ThrowingSteps ==
    { "allocNative", "allocJs", "makeHolder", "builtins", "extras", "platform",
      "create", "load", "wrap" }

\* Variant of OnThrow: without noexcept the exception unwinds into the caller.
OnThrow_Unwind == "unwound"

\* line 40: the function is noexcept, so an exception that reaches its boundary
\* ends in std::terminate; nothing is returned and nothing unwinds.
OnThrow == "terminated"

\* An exception (std::bad_alloc or one thrown by a callee) in the current statement.
Throw ==
    /\ pc \in ThrowingSteps
    /\ pc' = OnThrow
    /\ UNCHANGED << callVars, runVars, settings, devSettings, nativeQueue, jsQueue,
                    holder, extraModules, idx, instance, result, done, queues >>

\* ------------------------------------------------------------- the two queues
ProcessAlive == pc \notin { "terminated", "unwound" }

\* A queue's thread takes the task at the head of the queue and starts it.
StartTask(q) ==
    /\ ProcessAlive
    /\ queues[q].state \in { "running", "draining" }
    /\ queues[q].current = << >>
    /\ queues[q].tasks # << >>
    /\ queues' = [queues EXCEPT ![q].current = << Head(queues[q].tasks) >>,
                                ![q].tasks = Tail(queues[q].tasks)]
    /\ executed' = Append(executed,
                          [kind |-> Head(queues[q].tasks).kind,
                           id |-> Head(queues[q].tasks).id,
                           queue |-> q])
    /\ UNCHANGED << pc, callVars, loadStatus, issued, timers, released, settings,
                    devSettings, nativeQueue, jsQueue, holder, extraModules, idx,
                    instance, result, done >>

\* The running task ends; a bundle load ends in success or in failure.
FinishTask(q) ==
    /\ ProcessAlive
    /\ queues[q].current # << >>
    /\ queues' = [queues EXCEPT ![q].current = << >>]
    /\ IF queues[q].current[1].kind = "load"
       THEN loadStatus' \in { "ok", "failed" }
       ELSE loadStatus' = loadStatus
    /\ UNCHANGED << pc, callVars, issued, executed, timers, released, settings,
                    devSettings, nativeQueue, jsQueue, holder, extraModules, idx,
                    instance, result, done >>

\* Script code, running as a task of the script queue, calls a method of the
\* k-th module of the table: the call is posted to that descriptor's queue.
ScriptCall(k) ==
    /\ ProcessAlive
    /\ instance.made
    /\ loadStatus = "ok"
    /\ queues[instance.jsQueue].state = "running"
    /\ issued < MaxCalls
    /\ k \in 1..Len(instance.modules)
    /\ issued' = issued + 1
    /\ queues' = Post(queues, instance.modules[k].queue,
                      [kind |-> "call", id |-> issued + 1])
    /\ UNCHANGED << pc, callVars, loadStatus, executed, timers, released, settings,
                    devSettings, nativeQueue, jsQueue, holder, extraModules, idx,
                    instance, result, done >>

\* The queue the Timing provider captured (line 60), as held by the table.
TimingCapture(modules) ==
    { modules[k].provider.capture : k \in { j \in 1..Len(modules) :
                                            modules[j].provider.capture # Null } }

\* The Timing module posts a timer callback through the queue it captured.
TimerFire ==
    /\ ProcessAlive
    /\ instance.made
    /\ timers < MaxTimers
    /\ \E q \in TimingCapture(instance.modules) :
          queues' = Post(queues, q, [kind |-> "timer", id |-> timers + 1])
    /\ timers' = timers + 1
    /\ UNCHANGED << pc, callVars, loadStatus, issued, executed, released, settings,
                    devSettings, nativeQueue, jsQueue, holder, extraModules, idx,
                    instance, result, done >>

\* Variant of Shutdown: the queue is left running.
Shutdown_Skip(qs, q) == qs

\* shutdown(): the queue stops accepting tasks; pending tasks still run.
Shutdown(qs, q) ==
    IF qs[q].state = "running" THEN [qs EXCEPT ![q].state = "draining"] ELSE qs

\* The caller releases the returned handle: the instance is destroyed and shuts
\* down both of its queues.
ReleaseHandle ==
    /\ pc = "returned"
    /\ ~released
    /\ released' = TRUE
    /\ queues' = Shutdown(Shutdown(queues, instance.nativeQueue), instance.jsQueue)
    /\ UNCHANGED << pc, callVars, loadStatus, issued, executed, timers, settings,
                    devSettings, nativeQueue, jsQueue, holder, extraModules, idx,
                    instance, result, done >>

\* A queue that was shut down and has drained releases its thread.
QueueQuit(q) ==
    /\ ProcessAlive
    /\ queues[q].state = "draining"
    /\ queues[q].tasks = << >>
    /\ queues[q].current = << >>
    /\ queues' = [queues EXCEPT ![q].state = "shutdown"]
    /\ UNCHANGED << pc, callVars, runVars, settings, devSettings, nativeQueue,
                    jsQueue, holder, extraModules, idx, instance, result, done >>

\* ------------------------------------------------------------- specification
Next ==
    \/ AllocNativeQueue
    \/ AllocJsQueue
    \/ MakeRuntimeHolder
    \/ BuildBuiltins
    \/ AppendExtra
    \/ ExtrasDone
    \/ SetPlatformName
    \/ CreateInstance
    \/ IssueLoadBundle
    \/ ReturnHandle
    \/ Throw
    \/ \E q \in Range(QueueIds) : StartTask(q)
    \/ \E q \in Range(QueueIds) : FinishTask(q)
    \/ \E k \in 1..(Len(BuiltinNames) + MaxExtras) : ScriptCall(k)
    \/ TimerFire
    \/ ReleaseHandle
    \/ \E q \in Range(QueueIds) : QueueQuit(q)

Spec == Init /\ [][Next]_vars

\* Each queue owns a thread that keeps running its tasks and quits once drained.
LiveSpec ==
    /\ Spec
    /\ \A q \in Range(QueueIds) :
          /\ WF_vars(StartTask(q))
          /\ WF_vars(FinishTask(q))
          /\ WF_vars(QueueQuit(q))

\* ------------------------------------------------------------- properties
IsPrefix(a, b) == Len(a) <= Len(b) /\ \A k \in 1..Len(a) : a[k] = b[k]

\* Number of elements of sequence v whose name is nm.
CountName(v, nm) == Cardinality({ k \in 1..Len(v) : v[k].name = nm })

\* C1: the table handed to the instance is the 7 built-in descriptors in the
\* order AsyncLocalStorage, WebSocketModule, Networking, Timing, app-state,
\* UIManager, device-info, followed by the n caller-supplied extras in the
\* caller's order; its length is 7 + n (for n = 0 exactly the built-in set).
C1_TableIsBuiltinsThenExtras ==
    instance.made =>
        /\ Len(instance.modules) = 7 + Len(cxxModules)
        /\ [k \in 1..7 |-> instance.modules[k].name]
             = << "AsyncLocalStorage", "WebSocketModule", "Networking", "Timing",
                  "AppState", "UIManager", "DeviceInfo" >>
        /\ \A k \in 1..7 :
              /\ instance.modules[k].provider.kind = "builtin"
              /\ instance.modules[k].provider.n = k
        /\ \A k \in 1..Len(cxxModules) :
              /\ instance.modules[7 + k].name = cxxModules[k].name
              /\ instance.modules[7 + k].provider.kind = "extra"
              /\ instance.modules[7 + k].provider.n = cxxModules[k].provider

\* An instance was constructed from a call with two extras of different names.
C1_Witness ==
    /\ instance.made
    /\ Len(cxxModules) = 2
    /\ cxxModules[1].name # cxxModules[2].name
    /\ Len(instance.modules) = 9

\* C2: every descriptor of the table handed to the instance, built-in or extra,
\* is bound to the native queue created by this invocation, none to the script
\* queue.
C2_AllBoundToNativeQueue ==
    instance.made =>
        \A k \in 1..Len(instance.modules) :
            /\ instance.modules[k].queue = instance.nativeQueue
            /\ instance.modules[k].queue # instance.jsQueue
            /\ instance.modules[k].queue \in Range(QueueIds)
            /\ queues[instance.modules[k].queue].state # "unallocated"

\* An instance was constructed whose table holds an extra descriptor.
C2_Witness ==
    /\ instance.made
    /\ \E k \in 1..Len(instance.modules) : instance.modules[k].provider.kind = "extra"

\* The call is over: it returned, terminated the process, or unwound.
CallOver == pc \in { "returned", "terminated", "unwound" }

\* C3 as stated: whether or not an internal step fails, the call returns a
\* non-null handle and no error unwinds.
C3_AlwaysReturnsHandle ==
    CallOver => (pc = "returned" /\ result # Null)

\* C3 as amended: no error unwinds across the boundary; a call that returns
\* returns a non-null handle around a constructed instance; a call in which a
\* step throws returns nothing, the process is terminated.
C3_ReturnsHandleOrTerminates ==
    /\ pc # "unwound"
    /\ pc = "returned" => (result # Null /\ instance.made)
    /\ pc = "terminated" => result = Null

\* A step threw after the instance was constructed: the process terminated and
\* no handle was returned.
C3_Witness ==
    /\ pc = "terminated"
    /\ instance.made
    /\ result = Null

\* C4 as stated: no two descriptors of the table handed to the instance have
\* the same name.
C4_NamesUnique ==
    instance.made =>
        \A i, j \in 1..Len(instance.modules) :
            i # j => instance.modules[i].name # instance.modules[j].name

\* C4 as amended: nothing is overridden; the table holds, for every name, as
\* many descriptors as the built-in list and the extras list hold together, so
\* a reused name occurs more than once, the last-appended descriptor last.
C4_DuplicatesKept ==
    instance.made =>
        /\ \A nm \in Range(BuiltinNames) \cup ExtraNames :
              CountName(instance.modules, nm)
                = Cardinality({ k \in 1..Len(BuiltinNames) : BuiltinNames[k] = nm })
                  + CountName(cxxModules, nm)
        /\ Len(cxxModules) > 0 =>
              instance.modules[Len(instance.modules)].provider
                = [kind |-> "extra", n |-> Len(cxxModules), capture |-> Null]

\* The table handed to the instance holds an extra named like the built-in
\* Timing module, next to that built-in.
C4_Witness ==
    /\ instance.made
    /\ \E i, j \in 1..Len(instance.modules) :
          /\ i < j
          /\ instance.modules[i].name = "Timing"
          /\ instance.modules[j].name = "Timing"
          /\ instance.modules[i].provider.kind = "builtin"
          /\ instance.modules[j].provider.kind = "extra"

\* Positions of the executed log that hold a task of the given kind.
Ran(kind) == { k \in 1..Len(executed) : executed[k].kind = kind }

\* C5: loadBundle is fire-and-forget.  The value GetInstance returns is the
\* handle around the instance whatever the state of the load (pending, done,
\* failed); the load request is queued on the script queue only and its
\* parse/execute work runs there.
C5_LoadIsFireAndForget ==
    /\ pc = "returned" =>
          /\ result = "DesktopTestInstance"
          /\ loadStatus \in { "pending", "ok", "failed" }
    /\ \A q \in Range(QueueIds) :
          (\E k \in 1..Len(queues[q].tasks) : queues[q].tasks[k].kind = "load")
              => (instance.made /\ q = instance.jsQueue)
    /\ \A k \in Ran("load") : executed[k].queue = instance.jsQueue
    /\ loadStatus \in { "ok", "failed" } => Ran("load") # { }

\* GetInstance has returned its handle although the load had already failed.
C5_Witness ==
    /\ pc = "returned"
    /\ result = "DesktopTestInstance"
    /\ loadStatus = "failed"
    /\ ~released

\* References to a queue or to the settings that the body of GetInstance holds
\* in its locals.
BridgeRefs ==
    { r \in { << "nativeQueue", nativeQueue >>, << "jsQueue", jsQueue >>,
              << "devSettings", devSettings >> } : r[2] # Null }
    \cup { << "extraModules", extraModules[k].queue >> : k \in 1..Len(extraModules) }

\* References to a queue or to the settings held by objects other than the
\* instance and the locals: the runtime holder, the queue captured by a module
\* constructor, the caller's settings pointer.
OutsideRefs ==
    { r \in { << "holder", holder.jsQueue >> } : r[2] # Null }
    \cup { << "capture", q >> : q \in TimingCapture(instance.modules) }
    \cup { r \in { << "caller", "settings" >> } : callerKeeps }

\* C6 as stated: once the instance is constructed it is the only owner; neither
\* the bridge nor any object outside the instance can reach a queue or the
\* settings.
C6_ExclusiveOwnership ==
    instance.made => (BridgeRefs = { } /\ OutsideRefs = { })

\* C6 as amended: once the instance is constructed the locals of GetInstance
\* are empty and the instance holds both queues and the settings, but the
\* ownership is shared: the runtime holder still references the script queue,
\* the Timing constructor's capture still references the native queue, and a
\* caller that kept its pointer still references the settings.
C6_LocalsEmptyOwnershipShared ==
    instance.made =>
        /\ BridgeRefs = { }
        /\ instance.nativeQueue \in Range(QueueIds)
        /\ instance.jsQueue \in Range(QueueIds)
        /\ instance.nativeQueue # instance.jsQueue
        /\ instance.devSettings = "settings"
        /\ << "holder", instance.jsQueue >> \in OutsideRefs
        /\ << "capture", instance.nativeQueue >> \in OutsideRefs
        /\ callerKeeps => << "caller", "settings" >> \in OutsideRefs

\* The instance is constructed, the caller dropped its settings pointer, and the
\* holder and the Timing capture still reach the queues.
C6_Witness ==
    /\ instance.made
    /\ ~callerKeeps
    /\ nativeQueue = Null /\ jsQueue = Null /\ devSettings = Null
    /\ OutsideRefs = { << "holder", instance.jsQueue >>,
                       << "capture", instance.nativeQueue >> }

\* C7: GetInstance changes two fields of the settings, jsiRuntimeHolder (to the
\* holder it created) and platformName (to "windesktop"), and no other field;
\* both are written before the settings are moved into the instance and nothing
\* is written afterwards.
C7_OnlyHolderAndPlatformWritten ==
    /\ \A f \in DOMAIN settings \ { "jsiRuntimeHolder", "platformName" } :
          settings[f] = settings0[f]
    /\ settings.jsiRuntimeHolder =
          IF holder.made THEN "holder" ELSE settings0.jsiRuntimeHolder
    /\ settings.platformName =
          IF "platform" \in Range(done) THEN "windesktop" ELSE settings0.platformName
    /\ instance.made =>
          settings = [settings0 EXCEPT !.jsiRuntimeHolder = "holder",
                                       !.platformName = "windesktop"]

\* The settings were moved into the instance with both fields rewritten and a
\* third field, set by the caller, still as the caller set it.
C7_Witness ==
    /\ instance.made
    /\ settings0 = [jsiRuntimeHolder |-> "callerHolder", platformName |-> "uwp",
                    useWebDebugger |-> TRUE]
    /\ settings = [jsiRuntimeHolder |-> "holder", platformName |-> "windesktop",
                   useWebDebugger |-> TRUE]

\* The queues of the instance.
InstanceQueues == { instance.nativeQueue, instance.jsQueue }

\* Queue q has shut down: it holds no task, runs none and accepts none.
Quiesced(q) ==
    /\ queues[q].state = "shutdown"
    /\ queues[q].tasks = << >>
    /\ queues[q].current = << >>

AllQuiesced == instance.made /\ \A q \in InstanceQueues : Quiesced(q)

\* C8: releasing the handle eventually quiesces both queues: after the release
\* the native and the script queue each reach the shut-down state; the tasks
\* pending at the release are run, not dropped; a queue that has shut down runs
\* no further task and a later post to it changes nothing.
C8_ReleaseQuiescesQueues ==
    /\ released ~> AllQuiesced
    /\ [][\A q \in Range(QueueIds) :
             queues[q].state = "shutdown" => queues'[q] = queues[q]]_vars
    /\ [](\A q \in Range(QueueIds) : queues[q].state = "shutdown" => Quiesced(q))
    /\ [](AllQuiesced =>
             /\ Cardinality(Ran("call")) = issued
             /\ loadStatus \in { "ok", "failed" })

\* Both queues have shut down after a release, the calls issued before it have
\* run, and a timer callback posted afterwards was not accepted.
C8_Witness ==
    /\ released
    /\ AllQuiesced
    /\ issued = 2
    /\ Cardinality(Ran("call")) = 2
    /\ timers = 1
    /\ Ran("timer") = { }

\* C9: every call script code issues into a module of the table executes on
\* the native queue, never on the script queue, one at a time, and calls start
\* in the order in which they were issued.
C9_CallsRunOnNativeQueueInOrder ==
    /\ \A k \in Ran("call") :
          /\ executed[k].queue = instance.nativeQueue
          /\ executed[k].queue # instance.jsQueue
    /\ \A i, j \in Ran("call") : i < j => executed[i].id < executed[j].id
    /\ Cardinality({ q \in Range(QueueIds) :
                        /\ queues[q].current # << >>
                        /\ queues[q].current[1].kind = "call" }) <= 1

\* Two calls were issued into a table that holds extras, and both have started
\* on the native queue.
C9_Witness ==
    /\ issued = 2
    /\ Cardinality(Ran("call")) = 2
    /\ Len(cxxModules) > 0
    /\ ~released

\* C10 as stated: both queues, then the holder and the platform identifier in
\* the settings, then the module table, then the instance, then loadBundle,
\* then the return.
C10_PlatformBeforeTable ==
    IsPrefix(done, << "allocNative", "allocJs", "makeHolder", "platform",
                      "builtins", "extras", "create", "load", "return" >>)

\* C10 as amended: both queues are allocated first; the holder is constructed
\* on the script queue and injected into the settings before the table is
\* built; the table is built; only then is the platform identifier written,
\* before the instance is constructed; then loadBundle is issued and the handle
\* returned; each step begins after the preceding one has completed.
C10_StepsInCodeOrder ==
    /\ IsPrefix(done, << "allocNative", "allocJs", "makeHolder", "builtins",
                         "extras", "platform", "create", "load", "return" >>)
    /\ holder.made =>
          /\ \A q \in Range(QueueIds) : queues[q].state # "unallocated"
          /\ holder.jsQueue \in Range(QueueIds)
    /\ (extraModules # << >> \/ instance.made) =>
          (holder.made /\ settings.jsiRuntimeHolder = "holder")
    /\ (extraModules # << >> /\ pc \in { "builtins", "extras" }) =>
          settings.platformName = settings0.platformName
    /\ instance.made =>
          /\ settings.platformName = "windesktop"
          /\ Len(instance.modules) >= Len(BuiltinNames)
    /\ loadStatus # "none" => instance.made
    /\ result # Null => loadStatus # "none"

\* The table is complete, extras included, and the platform identifier is still
\* the caller's.
C10_Witness ==
    /\ pc = "platform"
    /\ Len(extraModules) = Len(BuiltinNames) + 2
    /\ settings.jsiRuntimeHolder = "holder"
    /\ settings.platformName = "uwp"
====
